---- MODULE Spec2Model ----
(***************************************************************************)
(* Model of the 24-point solver (src/src/main.rs): solve_24, permutations, *)
(* find_solutions_for_permutation, try_struct1..try_struct5 and apply_op.  *)
(*                                                                         *)
(* An f64 is modelled by its exact value, a rational <<n, d>> in lowest     *)
(* terms with d > 0, and NaN by <<0, 0>>.  The operands are integers small *)
(* enough that f64 arithmetic on them is exact up to rounding far below    *)
(* EPSILON; the calls made around the EPSILON boundaries (operands 0, 1,   *)
(* 24, 10^6 and 10^6 +- 1) are decided on the exact values.  A string is a *)
(* sequence of one-character strings.                                      *)
(***************************************************************************)
EXTENDS Integers, Sequences, FiniteSets, TLC

VARIABLES
    cards,          \* solve_24: the argument `cards`
    pc,             \* solve_24: "idle" | "start" | "loop" | "done" | "panicked"
    perms,          \* solve_24: the Vec returned by permutations(&nums)
    idx,            \* solve_24: position of the `for perm in ...` loop (1-based)
    all_solutions,  \* solve_24: the HashSet all_solutions
    result,         \* solve_24: the Vec<String> returned
    u_fn,           \* unit call: "none" before the call, then the function called
    u_kind,         \* unit call: "try" | "apply" | "perm" | "idle"
    u_perm,         \* unit call: the f64 slice argument (perm, nums, or <<a, b>>)
    u_ops,          \* unit call: the operator arguments
    u_ret           \* unit call: the value returned

vars == <<cards, pc, perms, idx, all_solutions, result, u_fn, u_kind, u_perm, u_ops, u_ret>>

---------------------------------------------------------------------------
(* f64 arithmetic *)

Abs(n) == IF n < 0 THEN -n ELSE n

RECURSIVE GCD(_, _)
GCD(a, b) == IF b = 0 THEN a ELSE GCD(b, a % b)

Norm(n, d) ==
    LET g == GCD(Abs(n), Abs(d))
        s == IF d < 0 THEN -1 ELSE 1
    IN  <<(s * n) \div g, (s * d) \div g>>

NaN == <<0, 0>>

IsNaN(x) == x[2] = 0

\* `x as f64` for an i32 x
F64(x) == <<x, 1>>

FAdd(x, y) == IF IsNaN(x) \/ IsNaN(y) THEN NaN ELSE Norm(x[1] * y[2] + y[1] * x[2], x[2] * y[2])

FSub(x, y) == IF IsNaN(x) \/ IsNaN(y) THEN NaN ELSE Norm(x[1] * y[2] - y[1] * x[2], x[2] * y[2])

FMul(x, y) == IF IsNaN(x) \/ IsNaN(y) THEN NaN ELSE Norm(x[1] * y[1], x[2] * y[2])

\* a / b; a zero divisor (never passed by apply_op) gives a non-finite value,
\* which compares like NaN in every test the program makes
FDiv(x, y) ==
    IF IsNaN(x) \/ IsNaN(y) \/ y[1] = 0 THEN NaN ELSE Norm(x[1] * y[2], x[2] * y[1])

FAbs(x) == <<Abs(x[1]), x[2]>>

\* n1/d1 < n2/d2 for d1, d2 > 0, by integer parts and then the reciprocals of the
\* fractional parts (no product of a numerator and a denominator is formed)
RECURSIVE RatLt(_, _, _, _)
RatLt(n1, d1, n2, d2) ==
    LET q1 == n1 \div d1
        q2 == n2 \div d2
        r1 == n1 % d1
        r2 == n2 % d2
    IN  IF q1 # q2 THEN q1 < q2
        ELSE IF r2 = 0 THEN FALSE
        ELSE IF r1 = 0 THEN TRUE
        ELSE RatLt(d2, r2, d1, r1)

\* x < y on f64: false when either side is NaN
FLt(x, y) == ~IsNaN(x) /\ ~IsNaN(y) /\ RatLt(x[1], x[2], y[1], y[2])

FGt(x, y) == FLt(y, x)

FLe(x, y) == ~IsNaN(x) /\ ~IsNaN(y) /\ ~RatLt(y[1], y[2], x[1], x[2])

TARGET == <<24, 1>>

EPSILON == <<1, 1000000>>

---------------------------------------------------------------------------
(* Option / outcome values *)

None == [tag |-> "None", val |-> <<>>]

Some(v) == [tag |-> "Some", val |-> v]

\* an out-of-bounds slice index: the thread panics
Panic == [tag |-> "Panic", val |-> <<>>]

IsSome(o) == o.tag = "Some"

\* `.unwrap_or_else(|| f64::NAN)`
unwrap_or_nan(o) == IF IsSome(o) THEN o.val ELSE NaN

---------------------------------------------------------------------------
(* apply_op *)

apply_op_no_guard(a, b, op) ==
    CASE op = "+" -> Some(FAdd(a, b))
      [] op = "-" -> Some(FSub(a, b))
      [] op = "*" -> Some(FMul(a, b))
      [] op = "/" /\ ~IsNaN(b) /\ b[1] # 0 -> Some(FDiv(a, b))
      [] OTHER -> None

apply_op_floor_div(a, b, op) ==
    CASE op = "+" -> Some(FAdd(a, b))
      [] op = "-" -> Some(FSub(a, b))
      [] op = "*" -> Some(FMul(a, b))
      [] op = "/" /\ FGt(FAbs(b), EPSILON) ->
            LET q == FDiv(a, b) IN Some(IF IsNaN(q) THEN q ELSE <<q[1] \div q[2], 1>>)
      [] OTHER -> None

apply_op(a, b, op) ==
    CASE op = "+" -> Some(FAdd(a, b))
      [] op = "-" -> Some(FSub(a, b))
      [] op = "*" -> Some(FMul(a, b))
      [] op = "/" /\ FGt(FAbs(b), EPSILON) -> Some(FDiv(a, b))
      [] OTHER -> None

---------------------------------------------------------------------------
(* Display and format! *)

DigitChars == <<"0", "1", "2", "3", "4", "5", "6", "7", "8", "9">>

RECURSIVE FmtNat(_)
FmtNat(n) == IF n < 10 THEN <<DigitChars[n + 1]>> ELSE FmtNat(n \div 10) \o <<DigitChars[(n % 10) + 1]>>

\* Display of an f64: an integral value prints without a decimal point.  Every
\* operand of the model is integral (solve_24 casts i32 cards).
FmtF64(x) ==
    IF IsNaN(x) THEN <<"N", "a", "N">>
    ELSE IF x[1] < 0 THEN <<"-">> \o FmtNat(-x[1])
    ELSE FmtNat(x[1])

\* format!(fmt, args...): fmt is the literal with each "{}" kept as one element
RECURSIVE Format(_, _)
Format(fmt, args) ==
    IF fmt = <<>> THEN <<>>
    ELSE IF Head(fmt) = "{}" THEN Head(args) \o Format(Tail(fmt), Tail(args))
    ELSE <<Head(fmt)>> \o Format(Tail(fmt), args)

\* the seven arguments of every format! call of try_struct1..5
FmtArgs(perm, op1, op2, op3) ==
    <<FmtF64(perm[1]), <<op1>>, FmtF64(perm[2]), <<op2>>, FmtF64(perm[3]), <<op3>>, FmtF64(perm[4])>>

Fmt1 == <<"(", "{}", " ", "{}", " ", "{}", ")", " ", "{}", " ", "(", "{}", " ", "{}", " ", "{}", ")">>

Fmt2 == <<"(", "(", "{}", " ", "{}", " ", "{}", ")", " ", "{}", " ", "{}", ")", " ", "{}", " ", "{}">>

Fmt3 == <<"{}", " ", "{}", " ", "(", "{}", " ", "{}", " ", "(", "{}", " ", "{}", " ", "{}", ")", ")">>

Fmt4 == <<"(", "{}", " ", "{}", " ", "(", "{}", " ", "{}", " ", "{}", ")", ")", " ", "{}", " ", "{}">>

Fmt5 == <<"{}", " ", "{}", " ", "(", "(", "{}", " ", "{}", " ", "{}", ")", " ", "{}", " ", "{}", ")">>

---------------------------------------------------------------------------
(* try_struct1 .. try_struct5; perm[k] of the source is perm[k + 1] here *)

NearTarget_no_abs(r) == FLt(FSub(r, TARGET), EPSILON)

\* `(result - TARGET).abs() < EPSILON`
NearTarget(r) == FLt(FAbs(FSub(r, TARGET)), EPSILON)

try_struct1_fallback_zero(perm, op1, op2, op3) ==
    IF Len(perm) < 4 THEN Panic
    ELSE LET zero(o) == IF IsSome(o) THEN o.val ELSE F64(0)
             first == zero(apply_op(perm[1], perm[2], op1))
             second == zero(apply_op(perm[3], perm[4], op3))
             res == zero(apply_op(first, second, op2))
         IN  IF NearTarget(res) THEN Some(Format(Fmt1, FmtArgs(perm, op1, op2, op3))) ELSE None

\* (a op1 b) op2 (c op3 d)
try_struct1(perm, op1, op2, op3) ==
    IF Len(perm) < 4 THEN Panic
    ELSE LET first == unwrap_or_nan(apply_op(perm[1], perm[2], op1))
             second == unwrap_or_nan(apply_op(perm[3], perm[4], op3))
             res == unwrap_or_nan(apply_op(first, second, op2))
         IN  IF NearTarget(res) THEN Some(Format(Fmt1, FmtArgs(perm, op1, op2, op3))) ELSE None

try_struct2_inclusive(perm, op1, op2, op3) ==
    IF Len(perm) < 4 THEN Panic
    ELSE LET first == unwrap_or_nan(apply_op(perm[1], perm[2], op1))
             second == unwrap_or_nan(apply_op(first, perm[3], op2))
             res == unwrap_or_nan(apply_op(second, perm[4], op3))
         IN  IF FLe(FAbs(FSub(res, TARGET)), EPSILON)
             THEN Some(Format(Fmt2, FmtArgs(perm, op1, op2, op3))) ELSE None

\* ((a op1 b) op2 c) op3 d
try_struct2(perm, op1, op2, op3) ==
    IF Len(perm) < 4 THEN Panic
    ELSE LET first == unwrap_or_nan(apply_op(perm[1], perm[2], op1))
             second == unwrap_or_nan(apply_op(first, perm[3], op2))
             res == unwrap_or_nan(apply_op(second, perm[4], op3))
         IN  IF NearTarget(res) THEN Some(Format(Fmt2, FmtArgs(perm, op1, op2, op3))) ELSE None

try_struct3_swapped(perm, op1, op2, op3) ==
    IF Len(perm) < 4 THEN Panic
    ELSE LET first == unwrap_or_nan(apply_op(perm[3], perm[4], op3))
             second == unwrap_or_nan(apply_op(first, perm[2], op2))
             res == unwrap_or_nan(apply_op(perm[1], second, op1))
         IN  IF NearTarget(res) THEN Some(Format(Fmt3, FmtArgs(perm, op1, op2, op3))) ELSE None

\* a op1 (b op2 (c op3 d))
try_struct3(perm, op1, op2, op3) ==
    IF Len(perm) < 4 THEN Panic
    ELSE LET first == unwrap_or_nan(apply_op(perm[3], perm[4], op3))
             second == unwrap_or_nan(apply_op(perm[2], first, op2))
             res == unwrap_or_nan(apply_op(perm[1], second, op1))
         IN  IF NearTarget(res) THEN Some(Format(Fmt3, FmtArgs(perm, op1, op2, op3))) ELSE None

try_struct4_fmt2(perm, op1, op2, op3) ==
    IF Len(perm) < 4 THEN Panic
    ELSE LET first == unwrap_or_nan(apply_op(perm[2], perm[3], op2))
             second == unwrap_or_nan(apply_op(perm[1], first, op1))
             res == unwrap_or_nan(apply_op(second, perm[4], op3))
         IN  IF NearTarget(res) THEN Some(Format(Fmt2, FmtArgs(perm, op1, op2, op3))) ELSE None

\* (a op1 (b op2 c)) op3 d
try_struct4(perm, op1, op2, op3) ==
    IF Len(perm) < 4 THEN Panic
    ELSE LET first == unwrap_or_nan(apply_op(perm[2], perm[3], op2))
             second == unwrap_or_nan(apply_op(perm[1], first, op1))
             res == unwrap_or_nan(apply_op(second, perm[4], op3))
         IN  IF NearTarget(res) THEN Some(Format(Fmt4, FmtArgs(perm, op1, op2, op3))) ELSE None

\* a op1 ((b op2 c) op3 d)
try_struct5(perm, op1, op2, op3) ==
    IF Len(perm) < 4 THEN Panic
    ELSE LET first == unwrap_or_nan(apply_op(perm[2], perm[3], op2))
             second == unwrap_or_nan(apply_op(first, perm[4], op3))
             res == unwrap_or_nan(apply_op(perm[1], second, op1))
         IN  IF NearTarget(res) THEN Some(Format(Fmt5, FmtArgs(perm, op1, op2, op3))) ELSE None

---------------------------------------------------------------------------
(* permutations *)

\* `rest.remove(i)` on a copy of nums (i is 1-based here)
RemoveAt(s, i) == SubSeq(s, 1, i - 1) \o SubSeq(s, i + 1, Len(s))

RECURSIVE permutations(_), PermutationsFrom(_, _)
\* the iterations i, i+1, ... of `for (i, &v) in nums.iter().enumerate()`:
\* every permutation of the rest, with v inserted at position 0, pushed in order
PermutationsFrom(nums, i) ==
    IF i > Len(nums) THEN <<>>
    ELSE LET sub == permutations(RemoveAt(nums, i))
         IN  [j \in 1..Len(sub) |-> <<nums[i]>> \o sub[j]] \o PermutationsFrom(nums, i + 1)

RECURSIVE permutations_skip_equal(_)
permutations_skip_equal(nums) ==
    IF nums = <<>> THEN << <<>> >>
    ELSE LET RECURSIVE From(_)
             From(i) ==
                 IF i > Len(nums) THEN <<>>
                 ELSE IF \E k \in 1..(i - 1) : nums[k] = nums[i] THEN From(i + 1)
                 ELSE LET sub == permutations_skip_equal(RemoveAt(nums, i))
                      IN  [j \in 1..Len(sub) |-> <<nums[i]>> \o sub[j]] \o From(i + 1)
         IN  From(1)

permutations(nums) == IF nums = <<>> THEN << <<>> >> ELSE PermutationsFrom(nums, 1)

---------------------------------------------------------------------------
(* find_solutions_for_permutation *)

ops == <<"+", "-", "*", "/">>

OpSet == {ops[i] : i \in 1..Len(ops)}

\* what the five calls of one loop body return
TryAll(perm, op1, op2, op3) ==
    {try_struct1(perm, op1, op2, op3), try_struct2(perm, op1, op2, op3),
     try_struct3(perm, op1, op2, op3), try_struct4(perm, op1, op2, op3),
     try_struct5(perm, op1, op2, op3)}

find_solutions_short_op3(perm) ==
    LET outs == UNION {TryAll(perm, op1, op2, op3) : op1 \in OpSet, op2 \in OpSet, op3 \in {ops[i] : i \in 1..(Len(ops) - 1)}}
    IN  IF Panic \in outs THEN Panic
        ELSE Some({o.val : o \in {x \in outs : IsSome(x)}})

\* the HashSet of every Some(s) returned in the three nested loops; a panic in any
\* call unwinds out of the function
find_solutions_for_permutation(perm) ==
    LET outs == UNION {TryAll(perm, op1, op2, op3) : op1 \in OpSet, op2 \in OpSet, op3 \in OpSet}
    IN  IF Panic \in outs THEN Panic
        ELSE Some({o.val : o \in {x \in outs : IsSome(x)}})

---------------------------------------------------------------------------
(* solve_24 *)

\* the characters a rendered expression is made of
Alphabet == <<" ", "(", ")", "*", "+", "-", "/", "0", "1", "2", "3", "4", "5", "6", "7", "8", "9">>

\* the strings of S, which agree before position pos, in lexicographic order
RECURSIVE LexFrom(_, _), LexByChar(_, _, _)
LexFrom(S, pos) ==
    IF S = {} THEN <<>>
    ELSE IF Cardinality(S) = 1 THEN <<CHOOSE x \in S : TRUE>>
    ELSE LexFrom({x \in S : Len(x) < pos}, pos) \o LexByChar(S, pos, 1)

LexByChar(S, pos, k) ==
    IF k > Len(Alphabet) THEN <<>>
    ELSE LexFrom({x \in S : Len(x) >= pos /\ x[pos] = Alphabet[k]}, pos + 1) \o LexByChar(S, pos, k + 1)

SetToSeq(S) == LexFrom(S, 1)

Reverse(s) == [i \in 1..Len(s) |-> s[Len(s) + 1 - i]]

\* `all_solutions.into_iter().collect()`: each element once, in an order the
\* HashSet does not specify
IntoVec(S) == {SetToSeq(S), Reverse(SetToSeq(S))}

\* `let nums: Vec<f64> = cards.iter().map(|&x| x as f64).collect()`
Nums(cs) == [i \in 1..Len(cs) |-> F64(cs[i])]

\* bounds of the inputs
MaxRank == 3

\* hands of four cards of rank 1..MaxRank, dealt in non-decreasing order (solve_24
\* tries every ordering itself), and named hands of the puzzle in the order given
Hands ==
    {h \in [1..4 -> 1..MaxRank] : \A i \in 1..3 : h[i] <= h[i + 1]}
    \cup {<<8, 3, 3, 8>>, <<1, 3, 4, 6>>, <<6, 2, 3, 4>>, <<3, 3, 7, 7>>, <<1, 5, 5, 5>>, <<13, 13, 1, 2>>,
           <<1, 2, 3, 4>>, <<4, 4, 10, 10>>, <<0, 1, 4, 6>>, <<-2, 3, 4, 6>>, <<11, 13, 7, 5>>}

\* calls that break the four-operand contract
OtherHands == {<<>>, <<24>>, <<4, 6>>, <<2, 3, 4>>, <<1, 2, 3, 4, 5>>}

UnitIdle == u_fn = "none" /\ u_kind = "idle" /\ u_perm = <<>> /\ u_ops = <<>> /\ u_ret = None

Init ==
    /\ cards \in Hands \cup OtherHands
    /\ pc = "start"
    /\ perms = <<>>
    /\ idx = 0
    /\ all_solutions = {}
    /\ result = <<>>
    /\ UnitIdle

\* lines 77-80: nums, the empty HashSet, and the Vec the loop iterates
SolveBegin ==
    /\ pc = "start"
    /\ perms' = permutations(Nums(cards))
    /\ idx' = 1
    /\ all_solutions' = {}
    /\ pc' = "loop"
    /\ UNCHANGED <<cards, result, u_fn, u_kind, u_perm, u_ops, u_ret>>

\* lines 80-83: one iteration of `for perm in permutations(&nums)`
SolveLoop ==
    /\ pc = "loop"
    /\ idx <= Len(perms)
    /\ LET sols == find_solutions_for_permutation(perms[idx])
       IN  IF sols = Panic
           THEN pc' = "panicked" /\ UNCHANGED <<idx, all_solutions>>
           ELSE pc' = "loop" /\ idx' = idx + 1 /\ all_solutions' = all_solutions \cup sols.val
    /\ UNCHANGED <<cards, perms, result, u_fn, u_kind, u_perm, u_ops, u_ret>>

\* line 84: the loop is over, the set is collected into the returned Vec
SolveReturn ==
    /\ pc = "loop"
    /\ idx > Len(perms)
    /\ result' \in IntoVec(all_solutions)
    /\ pc' = "done"
    /\ UNCHANGED <<cards, perms, idx, all_solutions, u_fn, u_kind, u_perm, u_ops, u_ret>>

Next == SolveBegin \/ SolveLoop \/ SolveReturn

Spec == Init /\ [][Next]_vars

---------------------------------------------------------------------------
(* Direct calls of try_struct1..5, apply_op and permutations, as the tests make *)

\* every ordering of the elements of s (by position)
Orderings(s) ==
    {[i \in 1..Len(s) |-> s[f[i]]] : f \in {g \in [1..Len(s) -> 1..Len(s)] : \A i, j \in 1..Len(s) : g[i] = g[j] => i = j}}

\* integral operands: card hands, and hands whose candidates fall on, just inside
\* and just outside the EPSILON boundaries of the divisor guard and of the target test
UnitPerms ==
    UNION {Orderings(Nums(h)) :
              h \in {<<6, 2, 3, 4>>, <<8, 3, 3, 8>>, <<1, 0, 24, 0>>, <<1, 1000000, 24, 0>>,
                     <<1, 999999, 24, 0>>, <<1, 1000001, 24, 0>>, <<-1, 1000000, 24, 0>>}}

ApplyArgs ==
    {<<a, b>> : a \in {F64(0), F64(1), F64(8), F64(-3), <<5, 2>>, NaN},
                b \in {F64(0), F64(2), F64(-3), EPSILON, <<-1, 1000000>>, <<1, 999999>>, <<-1, 999999>>,
                       <<1, 1000001>>, <<-1, 1000001>>, <<1, 100000000>>, NaN}}

MaxPermLen == 4

PermVals == {1, 2, 3, 4}

PermArgs == UNION {[1..n -> {F64(v) : v \in PermVals}] : n \in 0..MaxPermLen}

SolveIdle == cards = <<>> /\ pc = "idle" /\ perms = <<>> /\ idx = 0 /\ all_solutions = {} /\ result = <<>>

UnitInit ==
    /\ SolveIdle
    /\ u_fn = "none"
    /\ u_ret = None
    /\ \/ u_kind = "try" /\ u_perm \in UnitPerms /\ u_ops \in OpSet \X OpSet \X OpSet
       \/ u_kind = "apply" /\ u_perm \in ApplyArgs /\ u_ops \in {<<op>> : op \in OpSet}
       \/ u_kind = "perm" /\ u_perm \in PermArgs /\ u_ops = <<>>

Called(fn, ret) ==
    /\ u_fn = "none"
    /\ u_fn' = fn
    /\ u_ret' = ret
    /\ UNCHANGED <<cards, pc, perms, idx, all_solutions, result, u_kind, u_perm, u_ops>>

CallTryStruct1 == u_kind = "try" /\ Called("try_struct1", try_struct1(u_perm, u_ops[1], u_ops[2], u_ops[3]))

CallTryStruct2 == u_kind = "try" /\ Called("try_struct2", try_struct2(u_perm, u_ops[1], u_ops[2], u_ops[3]))

CallTryStruct3 == u_kind = "try" /\ Called("try_struct3", try_struct3(u_perm, u_ops[1], u_ops[2], u_ops[3]))

CallTryStruct4 == u_kind = "try" /\ Called("try_struct4", try_struct4(u_perm, u_ops[1], u_ops[2], u_ops[3]))

CallTryStruct5 == u_kind = "try" /\ Called("try_struct5", try_struct5(u_perm, u_ops[1], u_ops[2], u_ops[3]))

CallApplyOp == u_kind = "apply" /\ Called("apply_op", apply_op(u_perm[1], u_perm[2], u_ops[1]))

CallPermutations == u_kind = "perm" /\ Called("permutations", Some(permutations(u_perm)))

UnitNext ==
    \/ CallTryStruct1
    \/ CallTryStruct2
    \/ CallTryStruct3
    \/ CallTryStruct4
    \/ CallTryStruct5
    \/ CallApplyOp
    \/ CallPermutations

SpecUnit == UnitInit /\ [][UnitNext]_vars

---------------------------------------------------------------------------
(* Reference semantics the properties are stated in: expression trees over four *)
(* ordered leaves, their value, their printed form, and a reader of printed     *)
(* expressions                                                                  *)

Leaf(i) == [kind |-> "leaf", i |-> i]

Node(k, l, r) == [kind |-> "node", k |-> k, l |-> l, r |-> r]

\* the five shapes; node k carries operator op_k, leaf i carries operand i
Shape ==
    << Node(2, Node(1, Leaf(1), Leaf(2)), Node(3, Leaf(3), Leaf(4))),
       Node(3, Node(2, Node(1, Leaf(1), Leaf(2)), Leaf(3)), Leaf(4)),
       Node(1, Leaf(1), Node(2, Leaf(2), Node(3, Leaf(3), Leaf(4)))),
       Node(3, Node(1, Leaf(1), Node(2, Leaf(2), Leaf(3))), Leaf(4)),
       Node(1, Leaf(1), Node(3, Node(2, Leaf(2), Leaf(3)), Leaf(4))) >>

\* ordinary arithmetic on two values
Arith(op, x, y) ==
    CASE op = "+" -> FAdd(x, y)
      [] op = "-" -> FSub(x, y)
      [] op = "*" -> FMul(x, y)
      [] op = "/" -> FDiv(x, y)

\* bottom-up value of a candidate: None as soon as one node is a division by a
\* value of magnitude <= EPSILON
RECURSIVE RefEval(_, _, _)
RefEval(t, vals, o) ==
    IF t.kind = "leaf" THEN Some(vals[t.i])
    ELSE LET l == RefEval(t.l, vals, o)
             r == RefEval(t.r, vals, o)
         IN  IF ~IsSome(l) \/ ~IsSome(r) THEN None
             ELSE IF o[t.k] = "/" /\ FLe(FAbs(r.val), EPSILON) THEN None
             ELSE Some(Arith(o[t.k], l.val, r.val))

\* the candidate as a tree of values and operator characters
RECURSIVE Instantiate(_, _, _)
Instantiate(t, vals, o) ==
    IF t.kind = "leaf" THEN [kind |-> "leaf", v |-> vals[t.i]]
    ELSE [kind |-> "node", op |-> o[t.k], l |-> Instantiate(t.l, vals, o), r |-> Instantiate(t.r, vals, o)]

RECURSIVE TreeEq(_, _)
TreeEq(a, b) ==
    /\ a.kind = b.kind
    /\ IF a.kind = "leaf" THEN a.v = b.v
       ELSE a.op = b.op /\ TreeEq(a.l, b.l) /\ TreeEq(a.r, b.r)

\* the printed form: every combination but the outermost in parentheses
RECURSIVE RefRender(_, _, _, _)
RefRender(t, vals, o, top) ==
    IF t.kind = "leaf" THEN FmtF64(vals[t.i])
    ELSE LET body == RefRender(t.l, vals, o, FALSE) \o <<" ", o[t.k], " ">> \o RefRender(t.r, vals, o, FALSE)
         IN  IF top THEN body ELSE <<"(">> \o body \o <<")">>

At(s, i) == IF i \in 1..Len(s) THEN s[i] ELSE ""

IsDigit(c) == \E k \in 1..10 : DigitChars[k] = c

DigitVal(c) == (CHOOSE k \in 1..10 : DigitChars[k] = c) - 1

RECURSIVE ReadDigits(_, _, _)
ReadDigits(s, i, acc) ==
    IF IsDigit(At(s, i)) THEN ReadDigits(s, i + 1, acc * 10 + DigitVal(s[i])) ELSE <<acc, i>>

\* a decimal integer at position i: [ok, t, n] with n the position after it
ReadNumber(s, i) ==
    LET neg == At(s, i) = "-"
        d == ReadDigits(s, IF neg THEN i + 1 ELSE i, 0)
    IN  [ok |-> IsDigit(At(s, IF neg THEN i + 1 ELSE i)),
         t |-> [kind |-> "leaf", v |-> F64(IF neg THEN -d[1] ELSE d[1])],
         n |-> d[2]]

RECURSIVE ReadTerm(_, _), ReadExpr(_, _)
\* term := number | "(" expr ")"
ReadTerm(s, i) ==
    IF At(s, i) = "("
    THEN LET e == ReadExpr(s, i + 1)
         IN  [ok |-> e.ok /\ At(s, e.n) = ")", t |-> e.t, n |-> e.n + 1]
    ELSE ReadNumber(s, i)

\* expr := term " " op " " term
ReadExpr(s, i) ==
    LET l == ReadTerm(s, i)
    IN  IF ~l.ok \/ At(s, l.n) # " " \/ At(s, l.n + 1) \notin OpSet \/ At(s, l.n + 2) # " "
        THEN [ok |-> FALSE, t |-> l.t, n |-> l.n]
        ELSE LET r == ReadTerm(s, l.n + 3)
             IN  [ok |-> r.ok, t |-> [kind |-> "node", op |-> s[l.n + 1], l |-> l.t, r |-> r.t], n |-> r.n]

\* the whole string read as one expression
Read(s) ==
    LET e == ReadExpr(s, 1) IN [ok |-> e.ok /\ e.n = Len(s) + 1, t |-> e.t]

\* the value of a read expression, with its printed parentheses and operators
RECURSIVE TreeValue(_)
TreeValue(t) ==
    IF t.kind = "leaf" THEN t.v ELSE Arith(t.op, TreeValue(t.l), TreeValue(t.r))

RECURSIVE TreeLeaves(_)
TreeLeaves(t) == IF t.kind = "leaf" THEN <<t.v>> ELSE TreeLeaves(t.l) \o TreeLeaves(t.r)

Range(s) == {s[i] : i \in 1..Len(s)}

WithinEps(v) == FLe(FAbs(FSub(v, TARGET)), EPSILON)

OpTriples == OpSet \X OpSet \X OpSet

IsFourHand == pc \in {"start", "loop", "done", "panicked"} /\ Len(cards) = 4

Returned == pc = "done" /\ Len(cards) = 4

---------------------------------------------------------------------------
(* C1 *)

\* C1 (soundness): every string solve_24 returns for a hand of four operands reads
\* as an expression over an ordering of the hand whose value, computed from the
\* printed parentheses and operators, is within EPSILON of 24.
C1_Soundness ==
    Returned =>
        \A k \in 1..Len(result) :
            LET e == Read(result[k])
            IN  /\ e.ok
                /\ TreeLeaves(e.t) \in Orderings(Nums(cards))
                /\ WithinEps(TreeValue(e.t))

RECURSIVE SameShape(_, _)
SameShape(t, sh) ==
    /\ t.kind = sh.kind
    /\ (t.kind = "node") => (SameShape(t.l, sh.l) /\ SameShape(t.r, sh.r))

\* a hand whose result holds strings of all five shapes
C1_Witness ==
    /\ Returned
    /\ cards = <<6, 2, 3, 4>>
    /\ \A k \in 1..5 : \E j \in 1..Len(result) : SameShape(Read(result[j]).t, Shape[k])

---------------------------------------------------------------------------
(* C2 *)

\* C2 (completeness): for a hand of four operands, every candidate (ordering,
\* operator triple, shape) whose bottom-up evaluation rejects no division and whose
\* value is 24 within EPSILON has its rendering in the result of solve_24.
C2_Completeness ==
    Returned =>
        \A vals \in Orderings(Nums(cards)), o \in OpTriples, k \in 1..5 :
            LET v == RefEval(Shape[k], vals, o)
            IN  (IsSome(v) /\ FLt(FAbs(FSub(v.val, TARGET)), EPSILON))
                    => RefRender(Shape[k], vals, o, TRUE) \in Range(result)

C2_Witness == Returned /\ cards = <<1, 3, 4, 6>> /\ Len(result) > 0

---------------------------------------------------------------------------
(* C3 *)

\* 4! orderings of a hand of four
Factorial4 == 4 * 3 * 2 * 1

\* no candidate over the hand reaches 24
Unsolvable(cs) ==
    \A vals \in Orderings(Nums(cs)), o \in OpTriples, k \in 1..5 :
        LET v == RefEval(Shape[k], vals, o) IN ~(IsSome(v) /\ WithinEps(v.val))

\* steps solve_24 still has to take: the first, one per remaining ordering, the return
Remaining ==
    CASE pc = "start" -> Factorial4 + 2
      [] pc = "loop" -> Factorial4 + 2 - idx
      [] OTHER -> 0

\* C3 (no solution is not an error): a call of solve_24 with four operands never
\* panics and terminates (it is at its first step, inside its loop of 24 orderings
\* or returned, and every step it takes leaves fewer steps to take); when no
\* candidate over the hand reaches 24 it returns the empty collection, as it does
\* for the hand [1, 1, 1, 1].
C3_NoSolutionIsEmpty ==
    /\ [](IsFourHand =>
            /\ pc \in {"start", "loop", "done"}
            /\ ((pc = "loop") => (Len(perms) = Factorial4 /\ idx \in 1..(Factorial4 + 1)))
            /\ ((pc = "done" /\ cards = <<1, 1, 1, 1>>) => (result = <<>>))
            /\ ((pc = "done" /\ Unsolvable(cards)) => (result = <<>>)))
    /\ [][IsFourHand => (Remaining' < Remaining)]_vars

C3_Witness == pc = "done" /\ cards = <<1, 1, 1, 1>> /\ Unsolvable(cards) /\ result = <<>>

---------------------------------------------------------------------------
(* C4 *)

Classic8338 == <<"8", " ", "/", " ", "(", "3", " ", "-", " ", "(", "8", " ", "/", " ", "3", ")", ")">>

\* C4: for the hand [8, 3, 3, 8] the result contains "8 / (3 - (8 / 3))".
C4_Classic ==
    (pc = "done" /\ cards = <<8, 3, 3, 8>>) => Classic8338 \in Range(result)

C4_Witness ==
    /\ pc = "done" /\ cards = <<8, 3, 3, 8>> /\ Classic8338 \in Range(result)
    /\ RefEval(Node(2, Leaf(2), Node(3, Leaf(1), Leaf(2))), <<F64(8), F64(3)>>, <<"", "-", "/">>) = Some(<<1, 3>>)

---------------------------------------------------------------------------
(* C8 *)

\* C8 (fail fast): a call of solve_24 whose hand does not have exactly 4 operands
\* never returns a result.
C8_FailFast == pc = "done" => Len(cards) = 4

---------------------------------------------------------------------------
(* C10 *)

TryStruct(k, perm, o) ==
    CASE k = 1 -> try_struct1(perm, o[1], o[2], o[3])
      [] k = 2 -> try_struct2(perm, o[1], o[2], o[3])
      [] k = 3 -> try_struct3(perm, o[1], o[2], o[3])
      [] k = 4 -> try_struct4(perm, o[1], o[2], o[3])
      [] k = 5 -> try_struct5(perm, o[1], o[2], o[3])

\* C10 (deduplication by string is safe): the string rendered for a candidate of
\* the ordering just processed reads back as exactly that candidate's shape, operand
\* values and operators, and so has that candidate's value: two candidates with the
\* same string are the same shape over the same values and operators.  The
\* collection solve_24 returns holds no string twice.
C10_DedupSafe ==
    /\ (pc = "loop" /\ idx > 1 /\ Len(cards) = 4) =>
           \A o \in OpTriples, k \in 1..5 :
               LET r == TryStruct(k, perms[idx - 1], o)
                   e == Read(r.val)
               IN  IsSome(r) =>
                       /\ e.ok
                       /\ TreeEq(e.t, Instantiate(Shape[k], perms[idx - 1], o))
                       /\ RefEval(Shape[k], perms[idx - 1], o) = Some(TreeValue(e.t))
    /\ pc = "done" => Cardinality(Range(result)) = Len(result)

\* a hand with a repeated value: several orderings render the same strings
C10_Witness ==
    /\ pc = "done" /\ cards = <<3, 3, 7, 7>> /\ Len(result) > 1
    /\ \E i, j \in 1..Len(perms) : i # j /\ perms[i] = perms[j]

---------------------------------------------------------------------------
(* C5 *)

PosPerms(n) == {g \in [1..n -> 1..n] : \A i, j \in 1..n : g[i] = g[j] => i = j}

Reorder(s, f) == [i \in 1..Len(s) |-> s[f[i]]]

Count(seq, x) == Cardinality({j \in 1..Len(seq) : seq[j] = x})

RECURSIVE Factorial(_)
Factorial(n) == IF n = 0 THEN 1 ELSE n * Factorial(n - 1)

---------------------------------------------------------------------------
(* C6 *)

\* C6 as claimed: apply_op returns a+b, a-b, a*b for '+', '-', '*', and for '/'
\* is rejected exactly when |b| <= EPSILON and returns a/b otherwise.
C6_AsClaimed ==
    u_fn = "apply_op" =>
        LET a == u_perm[1]
            b == u_perm[2]
            op == u_ops[1]
        IN  u_ret = IF op = "/" /\ FLe(FAbs(b), EPSILON) THEN None ELSE Some(Arith(op, a, b))

\* C6 as amended: for '/' apply_op is rejected exactly when |b| > EPSILON does not
\* hold, that is when |b| <= EPSILON or b is NaN, and returns a/b otherwise; '+',
\* '-' and '*' always return a+b, a-b, a*b.
C6_ApplyOp ==
    u_fn = "apply_op" =>
        LET a == u_perm[1]
            b == u_perm[2]
            op == u_ops[1]
        IN  u_ret = IF op = "/" /\ (FLe(FAbs(b), EPSILON) \/ IsNaN(b)) THEN None ELSE Some(Arith(op, a, b))

C6_Witness ==
    u_fn = "apply_op" /\ u_ops = <<"/">> /\ u_perm = <<F64(8), NaN>> /\ u_ret = None

---------------------------------------------------------------------------
(* C7, C9 *)

FnNames == <<"try_struct1", "try_struct2", "try_struct3", "try_struct4", "try_struct5">>

TryCalled == u_kind = "try" /\ u_fn # "none"

\* the shape the called function evaluates
CalledShape == Shape[CHOOSE k \in 1..5 : FnNames[k] = u_fn]

\* C7 (rejection propagates): when a node of the candidate is a division by a value
\* of magnitude <= EPSILON, try_structN returns None whatever is applied afterwards.
C7_RejectionPropagates ==
    TryCalled => (RefEval(CalledShape, u_perm, u_ops) = None => u_ret = None)

\* (1 / 0) + (24 + 0): the rejected node is followed by additions that reach 24
C7_Witness ==
    /\ u_fn = "try_struct1"
    /\ u_perm = <<F64(1), F64(0), F64(24), F64(0)>>
    /\ u_ops = <<"/", "+", "+">>
    /\ RefEval(CalledShape, u_perm, u_ops) = None
    /\ u_ret = None

====
